---- MODULE Spec2Model ----
(***************************************************************************)
(* Cerina Protocol Foundry: the supervisor/worker graph of                 *)
(* backend/graph/workflow.py, its agents, and the REST operations of       *)
(* backend/main.py that start, resume and edit one protocol run.           *)
(*                                                                         *)
(* One protocol (one thread id) is modelled.  Its persisted checkpoint is  *)
(* `ckpt`; every graph.invoke call is an execution with its own in-memory  *)
(* copy of the state (`exec`), which saves a checkpoint after each node.   *)
(***************************************************************************)
EXTENDS Integers, Sequences, FiniteSets, TLC

VARIABLES
    ckpt,       \* the latest checkpoint of the thread: <<>> or <<[vals, next, as_node]>>
    exec,       \* the graph.invoke calls: exec[0] from create_protocol, exec[i] from the i-th feedback
    created,    \* create_protocol has committed the ProtocolHistory row of the run
                \* and returned its id (the thread id is known to the client)
    nFeedback,  \* number of feedback submissions that reached graph.update_state
    response,   \* the outcome of the last REST call: [op, status]
    active_connections, \* manager.active_connections[protocol_id]: <<>> or <<socket>>
    sockets,    \* the websockets opened on /ws/{protocol_id}: "closed" or "open"
    sent,       \* what send_json has written to each websocket, in order
    other       \* the second run of the process, parked while the variables above
                \* describe the run that takes the step

\* the websocket side of a run
obs == <<active_connections, sockets, sent>>

vars == <<ckpt, exec, created, nFeedback, response, obs, other>>

(***************************************************************************)
(* Bounds of the model.                                                    *)
(***************************************************************************)
\* how many feedback submissions reach graph.update_state in one behaviour
MaxFeedback == 2

\* how many graph.invoke calls are in flight at once where requests overlap
MaxInFlight == 2

\* the websockets one client opens on a run
MaxSockets == 2

\* the human decisions sent to the two runs together, when two runs are followed
MaxRunsFeedback == 1

\* create_initial_state: max_iterations=5
MaxIterations == 5

(***************************************************************************)
(* Optional values (Python's Optional[T]): None or a value.                *)
(***************************************************************************)
None == << >>

Some(x) == <<x>>

\* Python strings are sequences of tokens: "" is the empty sequence and
\* concatenation (f-strings, join) is \o
EmptyStr == << >>

Str(token) == <<token>>

\* Python truthiness of an Optional[str]: neither None nor ""
TruthyStr(o) == o # None /\ o[1] # EmptyStr

\* Python truthiness of an Optional[bool]: True only
TruthyBool(o) == o = Some(TRUE)

\* a variant without the fallback operand
OrStr_First(a, b) == a

\* Python's `a or b` on Optional[str] operands
OrStr(a, b) == IF TruthyStr(a) THEN a ELSE b

\* "; ".join(list of strings)
RECURSIVE Join(_)
Join(strs) == IF strs = << >> THEN EmptyStr ELSE Head(strs) \o Join(Tail(strs))

(***************************************************************************)
(* models/state.py                                                         *)
(***************************************************************************)
\* class AgentRole(str, Enum): member name -> value
AgentRole ==
    [DRAFTER |-> "drafter", SAFETY_GUARDIAN |-> "safety_guardian",
     CLINICAL_CRITIC |-> "clinical_critic", SUPERVISOR |-> "supervisor"]

\* class SafetyLevel(str, Enum): the values SafetyLevel(...) accepts
SafetyLevel == {"safe", "needs_review", "unsafe"}

\* ClinicalAssessment: every score is Field(ge=0.0, le=10.0)
ScoreInRange(x) == 0 <= x /\ x <= 10

\* the fields declared Annotated[List[...], operator.add]
AppendFields == {"draft_versions", "scratchpad"}

create_initial_state(user_intent, user_context) ==
    [user_intent |-> user_intent,
     user_context |-> user_context,
     current_draft |-> EmptyStr,
     draft_versions |-> << >>,
     scratchpad |-> << >>,
     safety_assessment |-> None,
     clinical_assessment |-> None,
     iteration_count |-> 0,
     max_iterations |-> MaxIterations,
     current_agent |-> None,
     next_agent |-> Some(AgentRole.SUPERVISOR),
     needs_revision |-> FALSE,
     revision_reason |-> None,
     requires_human_approval |-> FALSE,
     human_approved |-> Some(FALSE),
     human_feedback |-> None,
     human_edits |-> None,
     final_protocol |-> None,
     completed |-> FALSE]

\* StateGraph(ProtocolState): a node's partial update is merged into the state,
\* operator.add for the annotated lists, overwrite for every other field
Merge(state, update) ==
    [f \in DOMAIN state |->
        IF f \in DOMAIN update
        THEN IF f \in AppendFields THEN state[f] \o update[f] ELSE update[f]
        ELSE state[f]]

\* the entry's timestamp and its free text (content) are not kept
ScratchpadEntry(agent, iteration, content) ==
    [agent |-> agent, iteration |-> iteration]

DraftVersion(version, content, created_by) ==
    [version |-> version, content |-> content, created_by |-> created_by]

(***************************************************************************)
(* agents/supervisor.py                                                    *)
(***************************************************************************)
\* the pass mark of the average clinical score (supervisor.py and clinical_critic.py)
QualityThreshold == 7

\* a variant that lets an average one point under the threshold pass
AvgScoreBelow_Lenient(clinical, threshold) ==
    clinical.empathy_score + clinical.structure_score
        + clinical.clinical_appropriateness < 3 * (threshold - 1)

\* (empathy + structure + clinical_appropriateness) / 3.0 < threshold
AvgScoreBelow(clinical, threshold) ==
    clinical.empathy_score + clinical.structure_score
        + clinical.clinical_appropriateness < 3 * threshold

SupervisorEntry(iteration, decision_log) ==
    ScratchpadEntry(AgentRole.SUPERVISOR, iteration, Str("Supervisor:") \o Join(decision_log))

\* a variant that sends the rejected draft on to the Clinical Critic
_request_revision_ToCritic(state, new_iteration, decision_log, clear_assessments) ==
    [iteration_count |-> new_iteration,
     current_agent |-> Some(AgentRole.SUPERVISOR),
     next_agent |-> Some(AgentRole.CLINICAL_CRITIC),
     needs_revision |-> TRUE,
     safety_assessment |-> None,
     clinical_assessment |-> None,
     scratchpad |-> <<SupervisorEntry(new_iteration, decision_log)>>]

\* a variant that never clears the assessments
_request_revision_KeepsAssessments(state, new_iteration, decision_log, clear_assessments) ==
    [iteration_count |-> new_iteration,
     current_agent |-> Some(AgentRole.SUPERVISOR),
     next_agent |-> Some(AgentRole.DRAFTER),
     needs_revision |-> TRUE,
     scratchpad |-> <<SupervisorEntry(new_iteration, decision_log)>>]

_request_revision(state, new_iteration, decision_log, clear_assessments) ==
    LET result ==
            [iteration_count |-> new_iteration,
             current_agent |-> Some(AgentRole.SUPERVISOR),
             next_agent |-> Some(AgentRole.DRAFTER),
             needs_revision |-> TRUE,
             scratchpad |-> <<SupervisorEntry(new_iteration, decision_log)>>]
    IN  IF clear_assessments
        THEN result @@ [safety_assessment |-> None, clinical_assessment |-> None]
        ELSE result

\* a variant that hands the run to the human instead of the agent
_route_to_agent_Pauses(state, new_iteration, decision_log, next_agent, needs_revision) ==
    [iteration_count |-> new_iteration,
     current_agent |-> Some(AgentRole.SUPERVISOR),
     next_agent |-> None,
     requires_human_approval |-> TRUE,
     scratchpad |-> <<SupervisorEntry(new_iteration, decision_log)>>]

\* a variant that sends a new draft straight to the Clinical Critic
_route_to_agent_SkipsSafety(state, new_iteration, decision_log, next_agent, needs_revision) ==
    [iteration_count |-> new_iteration,
     current_agent |-> Some(AgentRole.SUPERVISOR),
     next_agent |-> Some(IF next_agent = AgentRole.SAFETY_GUARDIAN
                         THEN AgentRole.CLINICAL_CRITIC ELSE next_agent),
     needs_revision |-> needs_revision,
     scratchpad |-> <<SupervisorEntry(new_iteration, decision_log)>>]

_route_to_agent(state, new_iteration, decision_log, next_agent, needs_revision) ==
    [iteration_count |-> new_iteration,
     current_agent |-> Some(AgentRole.SUPERVISOR),
     next_agent |-> Some(next_agent),
     needs_revision |-> needs_revision,
     scratchpad |-> <<SupervisorEntry(new_iteration, decision_log)>>]

\* a variant that asks for one more draft instead of pausing for the human
_request_human_approval_Redrafts(state, new_iteration, decision_log) ==
    [iteration_count |-> new_iteration,
     current_agent |-> Some(AgentRole.SUPERVISOR),
     next_agent |-> Some(AgentRole.DRAFTER),
     scratchpad |-> <<SupervisorEntry(new_iteration, decision_log)>>]

\* a variant that gives the run a fresh budget when it pauses
_request_human_approval_FreshBudget(state, new_iteration, decision_log) ==
    [iteration_count |-> 0,
     current_agent |-> Some(AgentRole.SUPERVISOR),
     next_agent |-> None,
     requires_human_approval |-> TRUE,
     scratchpad |-> <<SupervisorEntry(new_iteration,
                        decision_log \o <<Str("AWAITING HUMAN APPROVAL")>>)>>]

_request_human_approval(state, new_iteration, decision_log) ==
    [iteration_count |-> new_iteration,
     current_agent |-> Some(AgentRole.SUPERVISOR),
     next_agent |-> None,
     requires_human_approval |-> TRUE,
     scratchpad |-> <<SupervisorEntry(new_iteration,
                        decision_log \o <<Str("AWAITING HUMAN APPROVAL")>>)>>]

\* a variant that spends the budget without handing the run to the human
_complete_workflow_KeepsDrafting(state, decision_log, reason) ==
    [iteration_count |-> state.iteration_count + 1,
     current_agent |-> Some(AgentRole.SUPERVISOR),
     next_agent |-> Some(AgentRole.DRAFTER),
     scratchpad |-> <<SupervisorEntry(state.iteration_count + 1,
                        <<Str("Workflow complete"), Str(reason)>>)>>]

_complete_workflow(state, decision_log, reason) ==
    [iteration_count |-> state.iteration_count + 1,
     current_agent |-> Some(AgentRole.SUPERVISOR),
     next_agent |-> None,
     requires_human_approval |-> TRUE,
     scratchpad |-> <<SupervisorEntry(state.iteration_count + 1,
                        <<Str("Workflow complete"), Str(reason)>>)>>]

\* SupervisorAgent.__call__, the ordered decision rules
SupervisorCall(state) ==
    LET iteration == state.iteration_count
        max_iterations == state.max_iterations
        new_iteration == iteration + 1
        safety == state.safety_assessment
        clinical == state.clinical_assessment
    IN  IF state.needs_revision = TRUE
        THEN [human_approved |-> None] @@
             _request_revision(state, new_iteration,
                <<Str("Revision needed:")
                    \o OrStr(state.revision_reason,
                             OrStr(state.human_feedback,
                                   Some(Str("Quality issues detected"))))[1]>>,
                TRUE)
        ELSE IF new_iteration >= max_iterations
        THEN _complete_workflow(state, <<Str("Max iterations reached")>>,
                                "max_iterations_reached")
        ELSE IF state.current_draft = EmptyStr
        THEN _route_to_agent(state, new_iteration,
                <<Str("No draft yet - routing to Drafter")>>, AgentRole.DRAFTER, FALSE)
        ELSE IF safety = None
        THEN _route_to_agent(state, new_iteration,
                <<Str("Draft exists, needs safety check")>>,
                AgentRole.SAFETY_GUARDIAN, FALSE)
        ELSE IF safety[1].level = "unsafe"
        THEN _request_revision(state, new_iteration,
                <<Str("UNSAFE draft detected - requesting revision")>>, FALSE)
        ELSE IF safety[1].level = "needs_review"
        THEN _request_revision(state, new_iteration,
                <<Str("Safety concerns identified - requesting revision")>>, FALSE)
        ELSE IF clinical = None
        THEN _route_to_agent(state, new_iteration,
                <<Str("Safety check passed, needs clinical evaluation")>>,
                AgentRole.CLINICAL_CRITIC, FALSE)
        ELSE IF AvgScoreBelow(clinical[1], QualityThreshold)
        THEN _request_revision(state, new_iteration,
                <<Str("Clinical quality below threshold - requesting revision")>>, FALSE)
        ELSE IF ~state.needs_revision
        THEN _request_human_approval(state, new_iteration,
                <<Str("Clinical quality acceptable"),
                  Str("All checks passed - ready for human approval")>>)
        ELSE _request_revision(state, new_iteration,
                <<Str("Clinical quality acceptable"),
                  Str("Revision required - routing to Drafter")>>, FALSE)

(***************************************************************************)
(* agents/drafter.py                                                       *)
(***************************************************************************)
\* what the drafting LLM call may return (response.content)
DraftOutputs == {Str("draft")}

\* a Drafter that leaves needs_revision as it finds it
DrafterCall_KeepsFlag(state, draft_content) ==
    [current_draft |-> draft_content,
     draft_versions |-> <<DraftVersion(Len(state.draft_versions) + 1, draft_content,
                                       AgentRole.DRAFTER)>>,
     scratchpad |-> <<ScratchpadEntry(AgentRole.DRAFTER, state.iteration_count,
                                      Str("Created draft version"))>>,
     current_agent |-> Some(AgentRole.DRAFTER),
     next_agent |-> Some(AgentRole.SAFETY_GUARDIAN),
     human_approved |-> None,
     human_feedback |-> None]

\* a Drafter that leaves the human's decision in the state
DrafterCall_KeepsDecision(state, draft_content) ==
    [current_draft |-> draft_content,
     draft_versions |-> <<DraftVersion(Len(state.draft_versions) + 1, draft_content,
                                       AgentRole.DRAFTER)>>,
     scratchpad |-> <<ScratchpadEntry(AgentRole.DRAFTER, state.iteration_count,
                                      Str("Created draft version"))>>,
     current_agent |-> Some(AgentRole.DRAFTER),
     next_agent |-> Some(AgentRole.SAFETY_GUARDIAN),
     needs_revision |-> FALSE,
     revision_reason |-> None]

\* DrafterAgent.__call__ with the LLM returning draft_content
DrafterCall(state, draft_content) ==
    LET iteration == state.iteration_count
        new_version == DraftVersion(Len(state.draft_versions) + 1, draft_content,
                                    AgentRole.DRAFTER)
    IN  [current_draft |-> draft_content,
         draft_versions |-> <<new_version>>,
         scratchpad |-> <<ScratchpadEntry(AgentRole.DRAFTER, iteration,
                                          Str("Created draft version"))>>,
         current_agent |-> Some(AgentRole.DRAFTER),
         next_agent |-> Some(AgentRole.SAFETY_GUARDIAN),
         needs_revision |-> FALSE,
         revision_reason |-> None,
         human_approved |-> None,
         human_feedback |-> None]

(***************************************************************************)
(* agents/safety_guardian.py                                               *)
(***************************************************************************)
\* what the safety LLM call may return: text that json.loads accepts (json), with
\* the "level" it holds (None: no such key), or text that json.loads rejects
SafetyOutputs ==
    {[json |-> TRUE, level |-> Some("safe"), concerns |-> << >>,
      recommendations |-> << >>],
     [json |-> TRUE, level |-> Some("needs_review"),
      concerns |-> <<Str("lacks warning")>>, recommendations |-> <<Str("add disclaimer")>>],
     [json |-> TRUE, level |-> Some("unsafe"),
      concerns |-> <<Str("self-harm risk")>>, recommendations |-> << >>],
     [json |-> FALSE, level |-> None, concerns |-> << >>, recommendations |-> << >>],
     [json |-> TRUE, level |-> Some("dangerous"), concerns |-> << >>,
      recommendations |-> << >>]}

\* a variant whose fallback takes unparsable text for a safe verdict
SafetyParse_AssumesSafe(output) ==
    IF output.json
    THEN [level |-> output.level, concerns |-> output.concerns,
          recommendations |-> output.recommendations]
    ELSE [level |-> Some("safe"), concerns |-> << >>, recommendations |-> << >>]

\* the try/except around json.loads: the parsed data, or the fallback assessment
SafetyParse(output) ==
    IF output.json
    THEN [level |-> output.level, concerns |-> output.concerns,
          recommendations |-> output.recommendations]
    ELSE [level |-> Some("needs_review"),
          concerns |-> <<Str("Unable to parse safety assessment:")>>,
          recommendations |-> <<Str("Manual review required")>>]

\* SafetyLevel(assessment_data["level"]) raises KeyError / ValueError
SafetyRaises(output) ==
    LET assessment_data == SafetyParse(output)
    IN  assessment_data.level = None \/ assessment_data.level[1] \notin SafetyLevel

\* SafetyGuardianAgent.__call__ with the LLM returning output (when it does not raise)
SafetyGuardianCall(state, output) ==
    LET iteration == state.iteration_count
        assessment_data == SafetyParse(output)
        safety_assessment ==
            [level |-> assessment_data.level[1],
             concerns |-> assessment_data.concerns,
             recommendations |-> assessment_data.recommendations]
        scratchpad_content ==
            Str("Safety Level:") \o Str(safety_assessment.level)
            \o (IF safety_assessment.concerns # << >>
                THEN Str("Concerns:") \o Join(safety_assessment.concerns) ELSE EmptyStr)
            \o (IF safety_assessment.recommendations # << >>
                THEN Str("Recommendations:") \o Join(safety_assessment.recommendations)
                ELSE EmptyStr)
        needs_revision == safety_assessment.level # "safe"
        revision_reason ==
            IF needs_revision
            THEN Some(Str("Safety concerns identified:") \o Join(safety_assessment.concerns))
            ELSE None
    IN  [safety_assessment |-> Some(safety_assessment),
         scratchpad |-> <<ScratchpadEntry(AgentRole.SAFETY_GUARDIAN, iteration,
                                          scratchpad_content)>>,
         current_agent |-> Some(AgentRole.SAFETY_GUARDIAN),
         next_agent |-> IF needs_revision THEN Some(AgentRole.SUPERVISOR)
                        ELSE Some(AgentRole.CLINICAL_CRITIC),
         needs_revision |-> needs_revision,
         revision_reason |-> revision_reason]

(***************************************************************************)
(* agents/clinical_critic.py                                               *)
(***************************************************************************)
\* the score a missing key defaults to, and every score of the parse fallback
DefaultScore == 5

\* what the clinical LLM call may return: JSON with three scores (None: key
\* missing) and feedback, or text that json.loads rejects
ClinicalOutputs ==
    {[json |-> TRUE, empathy_score |-> Some(8), structure_score |-> Some(8),
      clinical_appropriateness |-> Some(8), feedback |-> Str("good")],
     [json |-> TRUE, empathy_score |-> Some(8), structure_score |-> Some(7),
      clinical_appropriateness |-> Some(6), feedback |-> Str("adequate")],
     [json |-> TRUE, empathy_score |-> Some(5), structure_score |-> Some(5),
      clinical_appropriateness |-> Some(5), feedback |-> Str("weak")],
     [json |-> TRUE, empathy_score |-> Some(7), structure_score |-> None,
      clinical_appropriateness |-> Some(8), feedback |-> Str("partial")],
     [json |-> FALSE, empathy_score |-> None, structure_score |-> None,
      clinical_appropriateness |-> None, feedback |-> EmptyStr],
     [json |-> TRUE, empathy_score |-> Some(11), structure_score |-> Some(8),
      clinical_appropriateness |-> Some(8), feedback |-> Str("great")]}

\* assessment_data.get(key, 5.0)
GetScore(value) == IF value = None THEN DefaultScore ELSE value[1]

\* a variant whose fallback takes unparsable text for a passing assessment
ClinicalParse_AssumesPass(output) ==
    IF output.json
    THEN [empathy_score |-> GetScore(output.empathy_score),
          structure_score |-> GetScore(output.structure_score),
          clinical_appropriateness |-> GetScore(output.clinical_appropriateness),
          feedback |-> output.feedback,
          suggestions |-> << >>]
    ELSE [empathy_score |-> 8,
          structure_score |-> 8,
          clinical_appropriateness |-> 8,
          feedback |-> Str("Unable to parse assessment"),
          suggestions |-> << >>]

\* the try/except around json.loads: the parsed data, or the fallback assessment
ClinicalParse(output) ==
    IF output.json
    THEN [empathy_score |-> GetScore(output.empathy_score),
          structure_score |-> GetScore(output.structure_score),
          clinical_appropriateness |-> GetScore(output.clinical_appropriateness),
          feedback |-> output.feedback,
          suggestions |-> << >>]
    ELSE [empathy_score |-> DefaultScore,
          structure_score |-> DefaultScore,
          clinical_appropriateness |-> DefaultScore,
          feedback |-> Str("Unable to parse assessment"),
          suggestions |-> <<Str("Manual review required")>>]

\* ClinicalAssessment(...) raises ValidationError on a score outside [0, 10]
ClinicalRaises(output) ==
    LET assessment_data == ClinicalParse(output)
    IN  ~(ScoreInRange(assessment_data.empathy_score)
          /\ ScoreInRange(assessment_data.structure_score)
          /\ ScoreInRange(assessment_data.clinical_appropriateness))

\* a Clinical Critic that reports its scores and leaves the revision to the supervisor
ClinicalCriticCall_NoFlag(state, output) ==
    [clinical_assessment |-> Some(ClinicalParse(output)),
     scratchpad |-> <<ScratchpadEntry(AgentRole.CLINICAL_CRITIC, state.iteration_count,
                                      Str("Scores."))>>,
     current_agent |-> Some(AgentRole.CLINICAL_CRITIC),
     next_agent |-> Some(AgentRole.SUPERVISOR),
     needs_revision |-> FALSE,
     revision_reason |-> None]

\* ClinicalCriticAgent.__call__ with the LLM returning output (when it does not raise)
ClinicalCriticCall(state, output) ==
    LET iteration == state.iteration_count
        clinical_assessment == ClinicalParse(output)
        needs_revision == AvgScoreBelow(clinical_assessment, QualityThreshold)
        revision_reason ==
            IF needs_revision
            THEN Some(Str("Clinical quality below threshold.")
                      \o clinical_assessment.feedback)
            ELSE None
        scratchpad_content ==
            Str("Scores.") \o Str("Feedback:") \o clinical_assessment.feedback
            \o (IF clinical_assessment.suggestions # << >>
                THEN Str("Suggestions:") \o Join(clinical_assessment.suggestions)
                ELSE EmptyStr)
    IN  [clinical_assessment |-> Some(clinical_assessment),
         scratchpad |-> <<ScratchpadEntry(AgentRole.CLINICAL_CRITIC, iteration,
                                          scratchpad_content)>>,
         current_agent |-> Some(AgentRole.CLINICAL_CRITIC),
         next_agent |-> Some(AgentRole.SUPERVISOR),
         needs_revision |-> needs_revision,
         revision_reason |-> revision_reason]

(***************************************************************************)
(* graph/workflow.py                                                       *)
(***************************************************************************)
START == "__start__"

END == "__end__"

should_continue(state) ==
    IF state.requires_human_approval /\ ~TruthyBool(state.human_approved)
    THEN "human_approval"
    ELSE IF TruthyBool(state.human_approved)
    THEN IF TruthyStr(state.human_edits) THEN "continue" ELSE "end"
    ELSE IF state.completed
    THEN "end"
    ELSE IF state.iteration_count >= state.max_iterations
    THEN "human_approval"
    ELSE IF state.next_agent # None
    THEN "continue"
    ELSE "human_approval"

\* a variant that hands every state back to the supervisor
route_to_agent_ViaSupervisor(state) == "supervisor"

route_to_agent(state) ==
    LET next_agent == state.next_agent
    IN  IF next_agent = Some(AgentRole.DRAFTER) THEN "drafter"
        ELSE IF next_agent = Some(AgentRole.SAFETY_GUARDIAN) THEN "safety_guardian"
        ELSE IF next_agent = Some(AgentRole.CLINICAL_CRITIC) THEN "clinical_critic"
        ELSE IF next_agent = Some(AgentRole.SUPERVISOR) THEN "supervisor"
        ELSE "supervisor"

\* the node "human_approval": the update it returns (the whole state when there
\* is neither an edit nor an approval)
process_human_feedback(state) ==
    IF TruthyStr(state.human_edits)
    THEN [current_draft |-> state.human_edits[1],
          final_protocol |-> state.human_edits,
          completed |-> TRUE]
    ELSE IF TruthyBool(state.human_approved)
    THEN [final_protocol |-> Some(state.current_draft),
          completed |-> TRUE]
    ELSE state

\* create_graph: the conditional edges out of "supervisor" (the lambda)
SupervisorEdge(state) ==
    IF state.requires_human_approval /\ ~TruthyBool(state.human_approved)
    THEN "human_approval"
    ELSE IF state.completed \/ TruthyBool(state.human_approved)
    THEN END
    ELSE route_to_agent(state)

\* create_graph: the conditional edges out of "human_approval"
HumanApprovalEdge(state) ==
    LET branch == should_continue(state)
    IN  IF branch = "continue" THEN "supervisor"
        ELSE IF branch = "human_approval" THEN "human_approval"
        ELSE END

\* create_graph: the node that follows `node` once its update is merged into state
EdgeFrom(node, state) ==
    IF node = START THEN "supervisor"
    ELSE IF node = "supervisor" THEN SupervisorEdge(state)
    ELSE IF node = "human_approval" THEN HumanApprovalEdge(state)
    ELSE "supervisor"

\* workflow.compile(checkpointer=..., interrupt_before=["human_approval"])
InterruptBefore == {"human_approval"}

\* the checkpoint saved after `node` returned `update` on `state`
Checkpoint(state, node, update) ==
    LET values == Merge(state, update)
    IN  [values |-> values, next |-> EdgeFrom(node, values), as_node |-> node]

(***************************************************************************)
(* The executions: graph.invoke in run_workflow_sync and resume_workflow   *)
(***************************************************************************)
ExecIds == 0 .. MaxFeedback

Unused == [pc |-> "unused", input |-> None, values |-> None, next |-> "", result |-> "none"]

\* the invoke call has returned (or raised): it keeps nothing
Returned(result) ==
    [pc |-> "returned", input |-> None, values |-> None, next |-> "", result |-> result]

Running(values, next) ==
    [pc |-> "running", input |-> None, values |-> values, next |-> next, result |-> "none"]

\* an execution that holds checkpoint c goes on to c.next, or stops: at END, or
\* interrupted before "human_approval"
Continue(c) ==
    IF c.next = END THEN Returned("end")
    ELSE IF c.next \in InterruptBefore THEN Returned("interrupt")
    ELSE Running(c.values, c.next)

\* a variant that saves every checkpoint under one thread id for all runs
Superstep_OneThread(e, node, update) ==
    LET c == Checkpoint(exec[e].values, node, update)
    IN  /\ ckpt' = Some(c)
        /\ other' = [other EXCEPT !.ckpt = Some(c)]
        /\ exec' = [exec EXCEPT ![e] = Continue(c)]
        /\ UNCHANGED <<created, nFeedback, response, obs>>

\* one superstep of execution e: `node` returned `update`; the checkpoint is saved
Superstep(e, node, update) ==
    LET c == Checkpoint(exec[e].values, node, update)
    IN  /\ ckpt' = Some(c)
        /\ exec' = [exec EXCEPT ![e] = Continue(c)]
        /\ UNCHANGED <<created, nFeedback, response, obs, other>>

\* the node raised: graph.invoke raises, run_workflow_sync / resume_workflow
\* catch it and return None; the last saved checkpoint stays
NodeRaises(e) ==
    /\ exec' = [exec EXCEPT ![e] = Returned("error")]
    /\ UNCHANGED <<ckpt, created, nFeedback, response, obs, other>>

AtNode(e, node) == exec[e].pc = "running" /\ exec[e].next = node

\* run_workflow_sync: graph.invoke(initial_state, config) saves the input as the
\* thread's first checkpoint and enters the graph at "supervisor"
InvokeInitial(e) ==
    /\ exec[e].pc = "submitted"
    /\ exec[e].input # None
    /\ LET c == [values |-> exec[e].input[1], next |-> EdgeFrom(START, exec[e].input[1]),
                 as_node |-> START]
       IN  /\ ckpt' = Some(c)
           /\ exec' = [exec EXCEPT ![e] = Continue(c)]
    /\ UNCHANGED <<created, nFeedback, response, obs, other>>

\* resume_workflow: graph.invoke(None, config) loads the latest checkpoint and goes
\* on from its next node; resuming at the interrupt runs "human_approval"
InvokeResume(e) ==
    /\ exec[e].pc = "submitted"
    /\ exec[e].input = None
    /\ ckpt # None
    /\ exec' = [exec EXCEPT ![e] =
                    IF ckpt[1].next = END THEN Returned("end")
                    ELSE Running(ckpt[1].values, ckpt[1].next)]
    /\ UNCHANGED <<ckpt, created, nFeedback, response, obs, other>>

RunSupervisor(e) ==
    /\ AtNode(e, "supervisor")
    /\ Superstep(e, "supervisor", SupervisorCall(exec[e].values))

RunDrafter(e) ==
    /\ AtNode(e, "drafter")
    /\ \E draft_content \in DraftOutputs :
          Superstep(e, "drafter", DrafterCall(exec[e].values, draft_content))

RunSafetyGuardian(e) ==
    /\ AtNode(e, "safety_guardian")
    /\ \E output \in SafetyOutputs :
          /\ ~SafetyRaises(output)
          /\ Superstep(e, "safety_guardian", SafetyGuardianCall(exec[e].values, output))

SafetyGuardianFails(e) ==
    /\ AtNode(e, "safety_guardian")
    /\ \E output \in SafetyOutputs : SafetyRaises(output)
    /\ NodeRaises(e)

RunClinicalCritic(e) ==
    /\ AtNode(e, "clinical_critic")
    /\ \E output \in ClinicalOutputs :
          /\ ~ClinicalRaises(output)
          /\ Superstep(e, "clinical_critic", ClinicalCriticCall(exec[e].values, output))

ClinicalCriticFails(e) ==
    /\ AtNode(e, "clinical_critic")
    /\ \E output \in ClinicalOutputs : ClinicalRaises(output)
    /\ NodeRaises(e)

RunHumanApproval(e) ==
    /\ AtNode(e, "human_approval")
    /\ Superstep(e, "human_approval", process_human_feedback(exec[e].values))

(***************************************************************************)
(* backend/main.py: the REST operations                                    *)
(***************************************************************************)
\* the request bodies the client sends
\* (ProtocolRequest.user_intent is any str: the empty one too)
Intents == {Str("thought record"), EmptyStr}

Feedbacks == {None, Some(Str("add a safety disclaimer"))}

Edits == {None, Some(EmptyStr), Some(Str("revised text"))}

Respond(op, status) == response' = [op |-> op, status |-> status]

\* graph.update_state(config, update): the update is applied as the node that
\* ran last, and that node's edges decide what runs next
update_state(c, update) == Checkpoint(c.values, c.as_node, update)

\* POST /api/protocols
create_protocol(user_intent, user_context) ==
    /\ ~created
    /\ created' = TRUE
    /\ exec' = [exec EXCEPT ![0] =
                    [pc |-> "submitted",
                     input |-> Some(create_initial_state(user_intent, user_context)),
                     values |-> None, next |-> "", result |-> "none"]]
    /\ Respond("create_protocol", 200)
    /\ UNCHANGED <<ckpt, nFeedback, obs, other>>

\* POST /api/protocols with a body that has no user_intent: FastAPI rejects the
\* request when it builds ProtocolRequest, the handler is not entered
ProtocolRequestInvalid ==
    /\ ~created
    /\ Respond("create_protocol", 422)
    /\ UNCHANGED <<ckpt, exec, created, nFeedback, obs, other>>

\* a variant whose approval ignores the edits it is given
FeedbackUpdate_IgnoresEdits(state, approved, feedback, edits) ==
    IF approved
    THEN [requires_human_approval |-> FALSE,
          human_approved |-> Some(TRUE),
          completed |-> TRUE,
          final_protocol |-> Some(state.current_draft)]
    ELSE [requires_human_approval |-> FALSE,
          human_approved |-> Some(FALSE),
          human_feedback |-> OrStr(feedback, Some(Str("Human requested revisions"))),
          needs_revision |-> TRUE,
          revision_reason |-> OrStr(feedback, Some(Str("Human requested revisions"))),
          next_agent |-> Some("drafter"),
          completed |-> FALSE,
          safety_assessment |-> None,
          clinical_assessment |-> None]

\* a variant whose rejection leaves requires_human_approval as it is
FeedbackUpdate_KeepsAwaiting(state, approved, feedback, edits) ==
    IF approved
    THEN [requires_human_approval |-> FALSE,
          human_approved |-> Some(TRUE),
          completed |-> TRUE]
         @@ (IF TruthyStr(edits)
             THEN [current_draft |-> edits[1], final_protocol |-> edits]
             ELSE [final_protocol |-> Some(state.current_draft)])
    ELSE [human_approved |-> Some(FALSE),
          human_feedback |-> OrStr(feedback, Some(Str("Human requested revisions"))),
          needs_revision |-> TRUE,
          revision_reason |-> OrStr(feedback, Some(Str("Human requested revisions"))),
          next_agent |-> Some("drafter"),
          completed |-> FALSE,
          safety_assessment |-> None,
          clinical_assessment |-> None]

\* submit_human_feedback: the update it builds from the request; DraftVersion(...,
\* created_by=AgentRole.HUMAN) is evaluated on a rejection that carries edits
FeedbackUpdate(state, approved, feedback, edits) ==
    IF approved
    THEN [requires_human_approval |-> FALSE,
          human_approved |-> Some(TRUE),
          completed |-> TRUE]
         @@ (IF TruthyStr(edits)
             THEN [current_draft |-> edits[1], final_protocol |-> edits]
             ELSE [final_protocol |-> Some(state.current_draft)])
    ELSE [requires_human_approval |-> FALSE,
          human_approved |-> Some(FALSE),
          human_feedback |-> OrStr(feedback, Some(Str("Human requested revisions"))),
          needs_revision |-> TRUE,
          revision_reason |-> OrStr(feedback, Some(Str("Human requested revisions"))),
          next_agent |-> Some("drafter"),
          completed |-> FALSE,
          safety_assessment |-> None,
          clinical_assessment |-> None]
         @@ (IF TruthyStr(edits)
             THEN [current_draft |-> edits[1],
                   human_edits |-> edits,
                   draft_versions |->
                       <<DraftVersion(Len(state.draft_versions) + 1, edits[1],
                                      AgentRole.HUMAN)>>]
             ELSE << >>)

\* evaluating AgentRole.HUMAN raises AttributeError unless the enum has the member
FeedbackRaises(approved, edits) ==
    ~approved /\ TruthyStr(edits) /\ "HUMAN" \notin DOMAIN AgentRole

\* POST /api/protocols/{protocol_id}/feedback
submit_human_feedback(approved, feedback, edits) ==
    /\ created
    /\ UNCHANGED <<obs, other>>
    /\ IF ckpt = None
       THEN /\ Respond("submit_human_feedback", 404)
            /\ UNCHANGED <<ckpt, exec, created, nFeedback>>
       ELSE IF FeedbackRaises(approved, edits)
       THEN /\ Respond("submit_human_feedback", 500)
            /\ UNCHANGED <<ckpt, exec, created, nFeedback>>
       ELSE /\ nFeedback < MaxFeedback
            /\ ckpt' = Some(update_state(ckpt[1],
                            FeedbackUpdate(ckpt[1].values, approved, feedback, edits)))
            /\ nFeedback' = nFeedback + 1
            /\ exec' = [exec EXCEPT ![nFeedback + 1] =
                            [pc |-> "submitted", input |-> None, values |-> None,
                             next |-> "", result |-> "none"]]
            /\ Respond("submit_human_feedback", 200)
            /\ UNCHANGED created

\* save_draft: the update it builds; DraftVersion(..., created_by=AgentRole.HUMAN)
SaveDraftUpdate(state, draft_content) ==
    [current_draft |-> draft_content,
     draft_versions |-> <<DraftVersion(Len(state.draft_versions) + 1, draft_content,
                                       AgentRole.HUMAN)>>]

SaveDraftRaises == "HUMAN" \notin DOMAIN AgentRole

\* POST /api/protocols/{protocol_id}/save
save_draft(draft) ==
    /\ created
    /\ UNCHANGED <<obs, other>>
    /\ IF ~TruthyStr(draft)
       THEN /\ Respond("save_draft", 400)
            /\ UNCHANGED <<ckpt, exec, created, nFeedback>>
       ELSE IF ckpt = None
       THEN /\ Respond("save_draft", 404)
            /\ UNCHANGED <<ckpt, exec, created, nFeedback>>
       ELSE IF SaveDraftRaises
       THEN /\ Respond("save_draft", 500)
            /\ UNCHANGED <<ckpt, exec, created, nFeedback>>
       ELSE /\ ckpt' = Some(update_state(ckpt[1], SaveDraftUpdate(ckpt[1].values, draft[1])))
            /\ Respond("save_draft", 200)
            /\ UNCHANGED <<exec, created, nFeedback>>

\* get_protocol_state: the StateResponse built from the checkpoint's values
StateResponse(values) ==
    [current_draft |-> values.current_draft,
     draft_versions |-> values.draft_versions,
     iteration_count |-> values.iteration_count,
     safety_assessment |-> values.safety_assessment,
     clinical_assessment |-> values.clinical_assessment,
     scratchpad |-> values.scratchpad,
     requires_human_approval |-> values.requires_human_approval,
     completed |-> values.completed]

\* a variant that reads through graph.update_state: the read writes a checkpoint
\* that marks the run as seen by the human
get_protocol_state_Touches ==
    /\ created
    /\ response' = IF ckpt = None
                   THEN [op |-> "get_protocol_state", status |-> 404]
                   ELSE [op |-> "get_protocol_state", status |-> 200,
                         body |-> StateResponse(ckpt[1].values)]
    /\ ckpt' = IF ckpt = None THEN ckpt
               ELSE Some(update_state(ckpt[1], [requires_human_approval |-> FALSE]))
    /\ UNCHANGED <<exec, created, nFeedback, obs, other>>

\* GET /api/protocols/{protocol_id}/state, with the id create_protocol returned:
\* graph.get_state(config); 404 when the thread has no checkpoint values
get_protocol_state ==
    /\ created
    /\ response' = IF ckpt = None
                   THEN [op |-> "get_protocol_state", status |-> 404]
                   ELSE [op |-> "get_protocol_state", status |-> 200,
                         body |-> StateResponse(ckpt[1].values)]
    /\ UNCHANGED <<ckpt, exec, created, nFeedback, obs, other>>

(***************************************************************************)
(* backend/main.py: ConnectionManager and the websocket endpoint           *)
(***************************************************************************)
\* the websockets a client may open on /ws/{protocol_id}
Sockets == 1 .. MaxSockets

\* ConnectionManager.connect: active_connections[protocol_id] = websocket
connect(websocket) == active_connections' = Some(websocket)

\* ConnectionManager.disconnect: del active_connections[protocol_id], whichever
\* websocket is registered under the id
disconnect == active_connections' = None

\* ConnectionManager.send_update: send_json on the registered websocket (no
\* handler and no graph step calls it)
send_update(data) ==
    IF active_connections # None
    THEN sent' = [sent EXCEPT ![active_connections[1]] = Append(@, data)]
    ELSE UNCHANGED sent

\* websocket_endpoint up to its receive loop: the socket is accepted and registered
websocket_connect(w) ==
    /\ created
    /\ sockets[w] = "closed"
    /\ sockets' = [sockets EXCEPT ![w] = "open"]
    /\ connect(w)
    /\ UNCHANGED <<ckpt, exec, created, nFeedback, response, sent, other>>

\* websocket_endpoint: receive_text raises WebSocketDisconnect
websocket_disconnect(w) ==
    /\ sockets[w] = "open"
    /\ sockets' = [sockets EXCEPT ![w] = "closed"]
    /\ disconnect
    /\ UNCHANGED <<ckpt, exec, created, nFeedback, response, sent, other>>

(***************************************************************************)
(* Two runs in one process. Every handler and every graph.invoke works on  *)
(* the thread of its own protocol_id (config = {"configurable":            *)
(* {"thread_id": protocol_id}}), so a step is a step of one run: the       *)
(* variables hold that run, `other` holds the run that is not stepping.    *)
(***************************************************************************)
ThisRun ==
    [ckpt |-> ckpt, exec |-> exec, created |-> created, nFeedback |-> nFeedback,
     active_connections |-> active_connections, sockets |-> sockets, sent |-> sent]

\* a protocol id that create_protocol has not handed out yet
NewRun ==
    [ckpt |-> None, exec |-> [e \in ExecIds |-> Unused], created |-> FALSE, nFeedback |-> 0,
     active_connections |-> None, sockets |-> [w \in Sockets |-> "closed"],
     sent |-> [w \in Sockets |-> << >>]]

\* the next request, or the next step of a background thread, belongs to the
\* other protocol_id
Switch ==
    /\ other' = ThisRun
    /\ ckpt' = other.ckpt
    /\ exec' = other.exec
    /\ created' = other.created
    /\ nFeedback' = other.nFeedback
    /\ active_connections' = other.active_connections
    /\ sockets' = other.sockets
    /\ sent' = other.sent
    /\ UNCHANGED response

(***************************************************************************)
(* The process is killed and started again: the module-level code of       *)
(* backend/main.py runs anew (checkpointer, graph, manager).               *)
(***************************************************************************)
\* database/checkpointer.py: init_database() opens the PostgresSaver, leaves its
\* `with` block and returns True
init_database == TRUE

\* main.py: checkpointer = init_database(); graph = create_graph(checkpointer)
checkpointer == init_database

\* the checkpoints outlive the process only when the graph writes them through a
\* PostgresSaver; what create_graph is given is the boolean
SavedInPostgres(c) == c \notin BOOLEAN

\* what is left of a run: the ProtocolHistory row is in the history database, the
\* executor threads, the websockets and the ConnectionManager are gone, and the
\* checkpoints are there only when they were saved in PostgreSQL
AfterRestart(run) ==
    [ckpt |-> IF SavedInPostgres(checkpointer) THEN run.ckpt ELSE None,
     exec |-> [e \in ExecIds |->
                 IF run.exec[e].pc \in {"submitted", "running"}
                 THEN Returned("killed") ELSE run.exec[e]],
     created |-> run.created,
     nFeedback |-> run.nFeedback,
     active_connections |-> None,
     sockets |-> [w \in Sockets |-> "closed"],
     sent |-> run.sent]

Restart ==
    /\ AfterRestart(ThisRun) # ThisRun \/ AfterRestart(other) # other
    /\ ckpt' = AfterRestart(ThisRun).ckpt
    /\ exec' = AfterRestart(ThisRun).exec
    /\ active_connections' = AfterRestart(ThisRun).active_connections
    /\ sockets' = AfterRestart(ThisRun).sockets
    /\ other' = AfterRestart(other)
    /\ UNCHANGED <<created, nFeedback, sent, response>>

(***************************************************************************)
(* The specification                                                       *)
(***************************************************************************)
Init ==
    /\ ckpt = None
    /\ exec = [e \in ExecIds |-> Unused]
    /\ created = FALSE
    /\ nFeedback = 0
    /\ response = [op |-> "none", status |-> 0]
    /\ active_connections = None
    /\ sockets = [w \in Sockets |-> "closed"]
    /\ sent = [w \in Sockets |-> << >>]
    /\ other = NewRun

\* the graph.invoke calls that are queued or running
InFlight == {e \in ExecIds : exec[e].pc \in {"submitted", "running"}}

\* every step of an execution (RunHumanApproval apart: only a resume that finds
\* the thread at the interrupt runs that node)
Engine ==
    \/ \E e \in ExecIds : InvokeInitial(e)
    \/ \E e \in ExecIds : InvokeResume(e)
    \/ \E e \in ExecIds : RunSupervisor(e)
    \/ \E e \in ExecIds : RunDrafter(e)
    \/ \E e \in ExecIds : RunSafetyGuardian(e)
    \/ \E e \in ExecIds : SafetyGuardianFails(e)
    \/ \E e \in ExecIds : RunClinicalCritic(e)
    \/ \E e \in ExecIds : ClinicalCriticFails(e)

\* a client that sends its decision only when no execution of the run is in flight
Next ==
    \/ \E user_intent \in Intents : create_protocol(user_intent, None)
    \/ ProtocolRequestInvalid
    \/ Engine
    \/ \E approved \in BOOLEAN, feedback \in Feedbacks, edits \in Edits :
          InFlight = {} /\ submit_human_feedback(approved, feedback, edits)
    \/ \E draft \in Edits : save_draft(draft)

Spec == Init /\ [][Next]_vars

\* any client: a decision may arrive while an execution of the run is in flight
\* (each request starts its own ThreadPoolExecutor; nothing serialises them)
NextOverlap ==
    \/ \E user_intent \in Intents : create_protocol(user_intent, None)
    \/ ProtocolRequestInvalid
    \/ Engine
    \/ \E e \in ExecIds : RunHumanApproval(e)
    \/ \E approved \in BOOLEAN, feedback \in Feedbacks, edits \in Edits :
          Cardinality(InFlight) < MaxInFlight
              /\ submit_human_feedback(approved, feedback, edits)
    \/ \E draft \in Edits : save_draft(draft)

SpecOverlap == Init /\ [][NextOverlap]_vars

\* the sequential client, which also polls the state of its run
NextRead ==
    \/ Next
    \/ get_protocol_state

SpecRead == Init /\ [][NextRead]_vars

\* the sequential client with observers on the websocket of its run
NextObservers ==
    \/ Next
    \/ \E w \in Sockets : websocket_connect(w)
    \/ \E w \in Sockets : websocket_disconnect(w)

SpecObservers == Init /\ [][NextObservers]_vars

\* the executor thread of a submitted graph.invoke keeps running until the call
\* returns or raises
SpecObserversFair == SpecObservers /\ WF_vars(Engine)

\* the polling client and a process that may be killed and started again
NextRestart ==
    \/ NextRead
    \/ Restart

SpecRestart == Init /\ [][NextRestart]_vars

\* two runs in the process, sequential clients
NextRuns ==
    \/ \E user_intent \in Intents : create_protocol(user_intent, None)
    \/ Engine
    \/ \E approved \in BOOLEAN, feedback \in Feedbacks, edits \in Edits :
          /\ InFlight = {}
          /\ nFeedback + other.nFeedback < MaxRunsFeedback
          /\ submit_human_feedback(approved, feedback, edits)
    \/ \E draft \in Edits : save_draft(draft)
    \/ get_protocol_state
    \/ Switch

SpecRuns == Init /\ [][NextRuns]_vars

(***************************************************************************)
(* The supervisor as a function of the state: SupervisorAgent.__call__ is  *)
(* applied once to a state with any combination of the fields it reads.    *)
(***************************************************************************)
\* the safety assessments and the clinical assessments a state may hold
SafetyInputs ==
    {None} \cup {Some([level |-> l, concerns |-> <<Str("lacks warning")>>,
                       recommendations |-> << >>]) : l \in SafetyLevel}

ClinicalInputs ==
    {None} \cup {Some([empathy_score |-> x, structure_score |-> x,
                       clinical_appropriateness |-> x, feedback |-> Str("feedback"),
                       suggestions |-> << >>]) : x \in {DefaultScore, QualityThreshold}}

\* the states handed to the supervisor
SupervisorInputs ==
    {[create_initial_state(Str("thought record"), None) EXCEPT
         !.needs_revision = nr,
         !.revision_reason = IF nr THEN Some(Str("Human requested revisions")) ELSE None,
         !.iteration_count = it,
         !.current_draft = d,
         !.safety_assessment = sa,
         !.clinical_assessment = ca] :
       nr \in BOOLEAN, it \in 0 .. MaxIterations, d \in {EmptyStr} \cup DraftOutputs,
       sa \in SafetyInputs, ca \in ClinicalInputs}

\* an execution stands before the node "supervisor" with one of these states
InitSupervisor ==
    /\ \E state \in SupervisorInputs :
          /\ ckpt = Some([values |-> state, next |-> "supervisor", as_node |-> START])
          /\ exec = [e \in ExecIds |->
                        IF e = 0 THEN Running(state, "supervisor") ELSE Unused]
    /\ created = TRUE
    /\ nFeedback = 0
    /\ response = [op |-> "create_protocol", status |-> 200]
    /\ active_connections = None
    /\ sockets = [w \in Sockets |-> "closed"]
    /\ sent = [w \in Sockets |-> << >>]
    /\ other = NewRun

NextSupervisor == \E e \in ExecIds : RunSupervisor(e)

SpecSupervisor == InitSupervisor /\ [][NextSupervisor]_vars

(***************************************************************************)
(* The Run States of a behaviour's state: the persisted one and the copy   *)
(* each running execution holds, each with the node that runs next on it.  *)
(***************************************************************************)
Persisted == IF ckpt = None THEN {} ELSE {[values |-> ckpt[1].values, next |-> ckpt[1].next]}

InMemory ==
    {[values |-> exec[e].values, next |-> exec[e].next] : e \in {x \in ExecIds : exec[x].pc = "running"}}

Snapshots == Persisted \cup InMemory

Paused(c) == c.next = "human_approval" /\ c.values.requires_human_approval

\* the worker entries of a scratchpad, in order
RECURSIVE WorkerEntries(_)
WorkerEntries(pad) ==
    IF pad = << >> THEN << >>
    ELSE IF Head(pad).agent = AgentRole.SUPERVISOR THEN WorkerEntries(Tail(pad))
    ELSE <<Head(pad)>> \o WorkerEntries(Tail(pad))

\* with no human input a checker's verdict failed exactly when the Drafter is the
\* next worker to run after it: every checker run of the scratchpad failed
EveryAssessmentFailed(state) ==
    LET w == WorkerEntries(state.scratchpad)
    IN  /\ \E i \in 1 .. Len(w) : w[i].agent # AgentRole.DRAFTER
        /\ \A i \in 1 .. Len(w) :
              w[i].agent # AgentRole.DRAFTER
                  => i < Len(w) /\ w[i + 1].agent = AgentRole.DRAFTER

(***************************************************************************)
(* C1: with max_iterations = N and no human input, a run whose Safety and  *)
(* Quality assessments all fail is stopped by the Complete decision at an  *)
(* iteration_count of at most N.                                           *)
(***************************************************************************)
C1_CompleteByMaxIterations ==
    \A c \in Persisted :
        (nFeedback = 0 /\ Paused(c) /\ EveryAssessmentFailed(c.values))
            => c.values.iteration_count <= c.values.max_iterations

(***************************************************************************)
(* C2: in every reachable Run State iteration_count <= max_iterations.     *)
(***************************************************************************)
C2_IterationWithinMax ==
    \A c \in Snapshots : c.values.iteration_count <= c.values.max_iterations

(***************************************************************************)
(* C3: for one run id at most one execution (drive/resume) runs at a time; *)
(* two executions never interleave their steps on the same Run State.      *)
(***************************************************************************)
C3_OneExecutionAtATime ==
    Cardinality({e \in ExecIds : exec[e].pc = "running"}) <= 1

(***************************************************************************)
(* C4: a human decision submitted on a run that is not awaiting human      *)
(* review is rejected with an error, changes nothing of the persisted Run  *)
(* State and starts no resume.                                             *)
(***************************************************************************)
C4_DecisionOnlyWhenAwaiting ==
    [][(/\ response' # response
        /\ response'.op = "submit_human_feedback"
        /\ ckpt # None
        /\ ~ckpt[1].values.requires_human_approval)
       => (/\ response'.status # 200
           /\ ckpt' = ckpt
           /\ exec' = exec)]_vars

(***************************************************************************)
(* C5: once a run is done (completed = true) no later operation changes    *)
(* any field of its Run State.                                             *)
(***************************************************************************)
C5_DoneIsImmutable ==
    [][(ckpt # None /\ ckpt[1].values.completed)
       => (ckpt' # None /\ ckpt'[1].values = ckpt[1].values)]_vars

Checkers == {Some(AgentRole.SAFETY_GUARDIAN), Some(AgentRole.CLINICAL_CRITIC)}

NoAssessment(state) == state.safety_assessment = None /\ state.clinical_assessment = None

(***************************************************************************)
(* C6 as written: no state has needs_revision = true together with an      *)
(* assessment that predates the revision trigger.  When both verdicts are  *)
(* present the Quality verdict is the trigger and the safety verdict was   *)
(* produced before it.                                                     *)
(***************************************************************************)
C6_NoStaleAssessmentWithRevision ==
    \A c \in Snapshots :
        c.values.needs_revision
            => ~(c.values.safety_assessment # None /\ c.values.clinical_assessment # None)

(***************************************************************************)
(* C6, amended: the verdicts are cleared by the supervisor evaluation that *)
(* handles needs_revision (or by the human rejection), not by the checker  *)
(* that raises it: once needs_revision = true has passed that point, and   *)
(* whenever the Drafter is the next node to run, both assessments are      *)
(* absent.                                                                 *)
(***************************************************************************)
C6_AssessmentsClearedBeforeRedraft ==
    \A c \in Snapshots :
        \/ c.values.needs_revision /\ c.values.current_agent \notin Checkers
        \/ c.next = "drafter"
        => NoAssessment(c.values)

\* a revision is under way after a Quality failure: the supervisor has cleared both verdicts
C6_Witness ==
    \E c \in Snapshots :
        /\ c.values.needs_revision
        /\ c.next = "drafter"
        /\ c.values.current_agent = Some(AgentRole.SUPERVISOR)
        /\ NoAssessment(c.values)
        /\ \E i \in 1 .. Len(c.values.scratchpad) :
              c.values.scratchpad[i].agent = AgentRole.CLINICAL_CRITIC

(***************************************************************************)
(* C7: requires_human_approval and needs_revision are never both true.     *)
(***************************************************************************)
C7_NotAwaitingAndRevising ==
    \A c \in Snapshots : ~(c.values.requires_human_approval /\ c.values.needs_revision)

\* a run pauses for review after at least one revision; a rejected run revises
C7_Witness ==
    /\ \E c \in Persisted :
          /\ c.values.requires_human_approval
          /\ ~c.values.needs_revision
          /\ Len(c.values.draft_versions) >= 2
    /\ nFeedback >= 1

(***************************************************************************)
(* C8: whenever a supervisor evaluation sets requires_human_approval, the  *)
(* state it evaluated either had iteration_count + 1 >= max_iterations or  *)
(* had all of: a safety verdict that is safe, a Quality verdict whose      *)
(* average is at least 7.0, needs_revision = false.                        *)
(***************************************************************************)
PassesBothChecks(state) ==
    /\ state.safety_assessment # None
    /\ state.safety_assessment[1].level = "safe"
    /\ state.clinical_assessment # None
    /\ LET a == state.clinical_assessment[1]
       IN  a.empathy_score + a.structure_score + a.clinical_appropriateness >= 3 * 7
    /\ ~state.needs_revision

C8_PauseOnlyWhenJustified ==
    [][\A e \in ExecIds :
          (/\ AtNode(e, "supervisor")
           /\ exec'[e] # exec[e]
           /\ ~exec[e].values.requires_human_approval
           /\ ckpt'[1].values.requires_human_approval)
          => \/ exec[e].values.iteration_count + 1 >= exec[e].values.max_iterations
             \/ PassesBothChecks(exec[e].values)]_vars

\* the supervisor has paused a run below the budget, on verdicts that pass
C8_Witness ==
    \E c \in Persisted :
        /\ Paused(c)
        /\ c.values.iteration_count < c.values.max_iterations
        /\ PassesBothChecks(c.values)

(***************************************************************************)
(* C9: in every reachable Run State the version numbers of draft_versions  *)
(* are exactly 1 .. N in order, with no gap and no duplicate.              *)
(***************************************************************************)
C9_VersionsAreOneToN ==
    \A c \in Snapshots :
        \A i \in 1 .. Len(c.values.draft_versions) : c.values.draft_versions[i].version = i

(***************************************************************************)
(* C10: every change of current_draft appends one DraftVersion carrying    *)
(* the new content, so whenever current_draft is non-empty the last        *)
(* DraftVersion's content equals current_draft.                            *)
(***************************************************************************)
C10_LastVersionIsCurrentDraft ==
    \A c \in Snapshots :
        c.values.current_draft # EmptyStr
            => /\ c.values.draft_versions # << >>
               /\ c.values.draft_versions[Len(c.values.draft_versions)].content
                      = c.values.current_draft

Workers == {"drafter", "safety_guardian", "clinical_critic"}

\* the persisted run is paused for review and no execution of it is in flight
PausedAtRest == ckpt # None /\ Paused(ckpt[1]) /\ InFlight = {}

C12_RejectRoutesToDrafter ==
    /\ [][\A feedback \in Feedbacks, edits \in Edits :
            (/\ PausedAtRest
             /\ TruthyStr(feedback)
             /\ ~TruthyStr(edits)
             /\ submit_human_feedback(FALSE, feedback, edits))
            => /\ response'.status = 200
               /\ ckpt'[1].values.needs_revision
               /\ ckpt'[1].values.revision_reason = feedback
               /\ NoAssessment(ckpt'[1].values)
               /\ ~ckpt'[1].values.requires_human_approval
               /\ ckpt'[1].next = "drafter"]_vars
    /\ [][\A e \in ExecIds :
            (/\ InvokeResume(e)
             /\ ckpt[1].values.needs_revision
             /\ ckpt[1].values.human_approved = Some(FALSE))
            => exec'[e].pc = "running" /\ exec'[e].next = "drafter"]_vars

\* the resume that follows the rejection of a paused run is about to run the Drafter
C12_Witness ==
    /\ nFeedback = 1
    /\ exec[0].result = "interrupt"
    /\ exec[1].pc = "running"
    /\ exec[1].next = "drafter"
    /\ exec[1].values.needs_revision
    /\ exec[1].values.revision_reason = Some(Str("add a safety disclaimer"))
    /\ NoAssessment(exec[1].values)

HumanVersion(version, content) == [version |-> version, content |-> content, created_by |-> "human"]

(***************************************************************************)
(* C13: a rejection with edits e and feedback f, submitted on a paused     *)
(* run, succeeds: current_draft = e, exactly one human-authored            *)
(* DraftVersion with content e is appended, needs_revision = true with     *)
(* revision_reason = f, both assessments and requires_human_approval are   *)
(* cleared, and the run proceeds to the Drafter.                           *)
(***************************************************************************)
C13_RejectWithEditsSucceeds ==
    [][\A feedback \in Feedbacks, edits \in Edits :
          (/\ PausedAtRest
           /\ TruthyStr(feedback)
           /\ TruthyStr(edits)
           /\ submit_human_feedback(FALSE, feedback, edits))
          => /\ response'.status = 200
             /\ ckpt'[1].values.current_draft = edits[1]
             /\ ckpt'[1].values.draft_versions
                   = Append(ckpt[1].values.draft_versions,
                            HumanVersion(Len(ckpt[1].values.draft_versions) + 1, edits[1]))
             /\ ckpt'[1].values.needs_revision
             /\ ckpt'[1].values.revision_reason = feedback
             /\ NoAssessment(ckpt'[1].values)
             /\ ~ckpt'[1].values.requires_human_approval
             /\ ckpt'[1].next = "drafter"]_vars

(***************************************************************************)
(* C14: save_draft with non-empty content on an existing run appends one   *)
(* DraftVersion (next version number, authored human), sets current_draft  *)
(* to the content and leaves every routing field and the next node as they *)
(* were.                                                                   *)
(***************************************************************************)
RoutingFields ==
    {"iteration_count", "needs_revision", "revision_reason", "safety_assessment",
     "clinical_assessment", "requires_human_approval", "completed"}

C14_SaveDraftAppendsVersion ==
    [][\A draft \in Edits :
          (ckpt # None /\ TruthyStr(draft) /\ save_draft(draft))
          => /\ response'.status = 200
             /\ ckpt'[1].values.current_draft = draft[1]
             /\ ckpt'[1].values.draft_versions
                   = Append(ckpt[1].values.draft_versions,
                            HumanVersion(Len(ckpt[1].values.draft_versions) + 1, draft[1]))
             /\ \A k \in RoutingFields : ckpt'[1].values[k] = ckpt[1].values[k]
             /\ ckpt'[1].next = ckpt[1].next]_vars

ParseFailureConcern == Str("Unable to parse safety assessment:")

(***************************************************************************)
(* C15: when the Safety Guardian's LLM output cannot be parsed, the run    *)
(* goes on (the node does not raise) and the safety_assessment it stores   *)
(* has level needs_review, never safe, with a concern naming the parse     *)
(* failure.                                                                *)
(***************************************************************************)
C15_UnparsableSafetyNeedsReview ==
    /\ [](\A output \in SafetyOutputs : ~output.json => ~SafetyRaises(output))
    /\ [][\A e \in ExecIds, output \in SafetyOutputs :
            (/\ ~output.json
             /\ AtNode(e, "safety_guardian")
             /\ Superstep(e, "safety_guardian",
                          SafetyGuardianCall(exec[e].values, output)))
            => LET assessment == ckpt'[1].values.safety_assessment
               IN  /\ assessment # None
                   /\ assessment[1].level = "needs_review"
                   /\ assessment[1].level # "safe"
                   /\ \E i \in 1 .. Len(assessment[1].concerns) :
                         assessment[1].concerns[i] = ParseFailureConcern]_vars

\* an unparsable safety output has been turned into a needs_review verdict
C15_Witness ==
    \E c \in Persisted :
        /\ c.values.current_agent = Some(AgentRole.SAFETY_GUARDIAN)
        /\ c.values.safety_assessment # None
        /\ c.values.safety_assessment[1].level = "needs_review"
        /\ c.values.safety_assessment[1].concerns = <<ParseFailureConcern>>

(***************************************************************************)
(* C16: when the Clinical Critic's LLM output cannot be parsed, the        *)
(* assessment it stores averages below the 7.0 threshold and               *)
(* needs_revision is set with a non-empty revision_reason; unparsable      *)
(* output never passes.                                                    *)
(***************************************************************************)
C16_UnparsableClinicalFails ==
    /\ [](\A output \in ClinicalOutputs : ~output.json => ~ClinicalRaises(output))
    /\ [][\A e \in ExecIds, output \in ClinicalOutputs :
            (/\ ~output.json
             /\ AtNode(e, "clinical_critic")
             /\ Superstep(e, "clinical_critic",
                          ClinicalCriticCall(exec[e].values, output)))
            => LET after == ckpt'[1].values
                   a == after.clinical_assessment
               IN  /\ a # None
                   /\ a[1].empathy_score + a[1].structure_score
                         + a[1].clinical_appropriateness < 3 * 7
                   /\ after.needs_revision
                   /\ after.revision_reason # None
                   /\ after.revision_reason[1] # EmptyStr]_vars

\* an unparsable clinical output has been turned into a failing assessment
C16_Witness ==
    \E c \in Persisted :
        /\ c.values.current_agent = Some(AgentRole.CLINICAL_CRITIC)
        /\ c.values.clinical_assessment # None
        /\ c.values.clinical_assessment[1].feedback = Str("Unable to parse assessment")
        /\ c.values.needs_revision

(***************************************************************************)
(* C17: whatever the LLM returns, a worker returns an assessment and the   *)
(* run goes on to a pause or to completion: no graph.invoke ends because a *)
(* worker raised.                                                          *)
(***************************************************************************)
C17_NoWorkerFailureAbortsRun ==
    \A e \in ExecIds : exec[e].result # "error"

(***************************************************************************)
(* C18: whenever an execution stops stepping the run (graph.invoke         *)
(* returns or raises), the persisted run is paused with                    *)
(* requires_human_approval = true or has completed = true.                 *)
(***************************************************************************)
C18_StopsOnlyPausedOrDone ==
    [][\A e \in ExecIds :
          (exec[e].pc # "returned" /\ exec'[e].pc = "returned")
          => /\ ckpt' # None
             /\ \/ ckpt'[1].values.requires_human_approval
                \/ ckpt'[1].values.completed]_vars

\* execution e has just run the node it was at
Stepped(e, node) == AtNode(e, node) /\ exec'[e] # exec[e]

\* no running execution has stepped: the step is a REST call or the start of an invoke
NoNodeRan == \A e \in ExecIds : exec[e].pc = "running" => exec'[e] = exec[e]

(***************************************************************************)
(* C19: iteration_count of the run never decreases; every supervisor       *)
(* evaluation adds exactly 1 to it; the Drafter, the Safety Guardian, the  *)
(* Clinical Critic, submit_human_feedback and save_draft leave it as it    *)
(* is.                                                                     *)
(***************************************************************************)
C19_IterationCountSteps ==
    /\ [][(ckpt # None /\ ckpt' # None)
             => ckpt'[1].values.iteration_count >= ckpt[1].values.iteration_count]_vars
    /\ [][\A e \in ExecIds :
            Stepped(e, "supervisor")
                => ckpt'[1].values.iteration_count = exec[e].values.iteration_count + 1]_vars
    /\ [][\A e \in ExecIds, w \in Workers :
            (Stepped(e, w) /\ exec'[e].result # "error")
                => ckpt'[1].values.iteration_count = exec[e].values.iteration_count]_vars
    /\ [][(NoNodeRan /\ ckpt # None /\ ckpt' # None)
             => ckpt'[1].values.iteration_count = ckpt[1].values.iteration_count]_vars

(***************************************************************************)
(* C20: in every reachable Run State needs_revision = true implies that    *)
(* revision_reason is present and non-empty, whoever set the flag.         *)
(***************************************************************************)
C20_RevisionHasReason ==
    \A c \in Snapshots :
        c.values.needs_revision
            => c.values.revision_reason # None /\ c.values.revision_reason[1] # EmptyStr

\* a run whose Safety Guardian has run was rejected by a human without feedback:
\* the flag is set and the reason is the default one
C20_Witness ==
    \E c \in Persisted :
        /\ c.values.needs_revision
        /\ c.values.revision_reason = Some(Str("Human requested revisions"))
        /\ \E i \in 1 .. Len(c.values.scratchpad) :
              c.values.scratchpad[i].agent = AgentRole.SAFETY_GUARDIAN

(***************************************************************************)
(* C21: in a new run whose first safety verdict is safe and whose first    *)
(* Quality average is at least 7.0, the workers run once each in the order *)
(* Drafter, Safety Guardian, Clinical Critic, and the supervisor then      *)
(* pauses the run for the human with exactly one draft version.            *)
(***************************************************************************)
\* the agents of the worker entries of a scratchpad, in order
Agents(pad) == [i \in 1 .. Len(WorkerEntries(pad)) |-> WorkerEntries(pad)[i].agent]

FirstPassOrder == <<AgentRole.DRAFTER, AgentRole.SAFETY_GUARDIAN, AgentRole.CLINICAL_CRITIC>>

\* the first safety verdict of the run is in and is safe
FirstSafetyIsSafe(state) ==
    /\ Agents(state.scratchpad) = SubSeq(FirstPassOrder, 1, 2)
    /\ state.safety_assessment # None
    /\ state.safety_assessment[1].level = "safe"

\* both first verdicts of the run are in and pass
FirstPassSucceeded(state) ==
    /\ Agents(state.scratchpad) = FirstPassOrder
    /\ PassesBothChecks(state)

C21_FirstPassPausesAfterOneRound ==
    /\ [](nFeedback = 0 =>
            \A c \in Snapshots :
                /\ \A i \in 1 .. 2 :
                      i <= Len(Agents(c.values.scratchpad))
                          => Agents(c.values.scratchpad)[i] = FirstPassOrder[i]
                /\ FirstSafetyIsSafe(c.values) => c.next \in {"supervisor", "clinical_critic"}
                /\ FirstPassSucceeded(c.values)
                      => /\ Len(c.values.draft_versions) = 1
                         /\ c.next = "supervisor" \/ Paused(c))
    /\ [][\A e \in ExecIds :
            (nFeedback = 0 /\ Stepped(e, "supervisor") /\ FirstPassSucceeded(exec[e].values))
            => /\ Paused(ckpt'[1])
               /\ Agents(ckpt'[1].values.scratchpad) = FirstPassOrder
               /\ Len(ckpt'[1].values.draft_versions) = 1
               /\ exec'[e] = Returned("interrupt")]_vars

\* the run is paused after its first round, no human decision sent yet
C21_Witness ==
    /\ nFeedback = 0
    /\ InFlight = {}
    /\ \E c \in Persisted :
          /\ Paused(c)
          /\ FirstPassSucceeded(c.values)
          /\ Len(c.values.draft_versions) = 1

(***************************************************************************)
(* C22: when the Safety Guardian returns a level other than safe on the    *)
(* first draft, the next supervisor evaluation adds exactly one to         *)
(* iteration_count, leaves needs_revision = true with a reason that holds  *)
(* the safety concerns, clears both assessments and routes to the Drafter, *)
(* whose run leaves draft_versions with length 2.                          *)
(***************************************************************************)
\* the first draft got a safety verdict, and it is not safe
FirstSafetyFailed(state) ==
    /\ Agents(state.scratchpad) = SubSeq(FirstPassOrder, 1, 2)
    /\ state.safety_assessment # None
    /\ state.safety_assessment[1].level # "safe"

C22_UnsafeFirstDraftIsRedrafted ==
    /\ [][\A e \in ExecIds :
            (nFeedback = 0 /\ Stepped(e, "supervisor") /\ FirstSafetyFailed(exec[e].values))
            => LET old == exec[e].values
                   new == ckpt'[1].values
               IN  /\ new.iteration_count = old.iteration_count + 1
                   /\ new.needs_revision
                   /\ new.revision_reason
                         = Some(Str("Safety concerns identified:")
                                    \o Join(old.safety_assessment[1].concerns))
                   /\ NoAssessment(new)
                   /\ ckpt'[1].next = "drafter"
                   /\ exec'[e] = Running(new, "drafter")]_vars
    /\ [][\A e \in ExecIds :
            (/\ nFeedback = 0
             /\ Stepped(e, "drafter")
             /\ Agents(exec[e].values.scratchpad) = SubSeq(FirstPassOrder, 1, 2))
            => /\ Len(ckpt'[1].values.draft_versions) = 2
               /\ Agents(ckpt'[1].values.scratchpad)
                     = SubSeq(FirstPassOrder, 1, 2) \o <<AgentRole.DRAFTER>>]_vars

\* the second draft of a run whose first draft failed the safety check with a
\* concern, no human decision sent yet
C22_Witness ==
    /\ nFeedback = 0
    /\ \E c \in Persisted :
          /\ Agents(c.values.scratchpad) = SubSeq(FirstPassOrder, 1, 2) \o <<AgentRole.DRAFTER>>
          /\ Len(c.values.draft_versions) = 2
          /\ c.values.iteration_count = 3

(***************************************************************************)
(* C23: with max_iterations = 5, a run whose safety verdict is safe and    *)
(* whose Quality average is 5.0 every time it is scored is stopped by the  *)
(* Complete decision at iteration_count = 5 with requires_human_approval   *)
(* set, and the Drafter does not run after that decision.                  *)
(***************************************************************************)
\* the workers that have run when a safe first draft failed the Quality check
\* and was drafted again
QualityFailedOrder == FirstPassOrder \o <<AgentRole.DRAFTER>>

Average5(assessment) ==
    assessment.empathy_score + assessment.structure_score
        + assessment.clinical_appropriateness = 3 * 5

C23_QualityFailureCompletesAtMax ==
    /\ [][\A e \in ExecIds :
            (/\ nFeedback = 0
             /\ Stepped(e, "clinical_critic")
             /\ ckpt'[1].values.clinical_assessment # None
             /\ Average5(ckpt'[1].values.clinical_assessment[1]))
            => /\ ckpt'[1].values.needs_revision
               /\ ckpt'[1].next = "supervisor"]_vars
    /\ [][\A e \in ExecIds :
            (/\ nFeedback = 0
             /\ Stepped(e, "supervisor")
             /\ Agents(exec[e].values.scratchpad) = QualityFailedOrder)
            => /\ exec[e].values.max_iterations = 5
               /\ ckpt'[1].values.iteration_count = 5
               /\ ckpt'[1].values.requires_human_approval
               /\ Paused(ckpt'[1])
               /\ exec'[e] = Returned("interrupt")]_vars
    /\ [](nFeedback = 0 =>
            \A c \in Snapshots :
                LET agents == Agents(c.values.scratchpad)
                IN  (Len(agents) >= 3 /\ SubSeq(agents, 1, 3) = FirstPassOrder)
                        => Len(agents) <= 4)

\* the run was stopped at iteration 5 after its second draft; the first draft was
\* safe and scored below the threshold
C23_Witness ==
    /\ nFeedback = 0
    /\ InFlight = {}
    /\ \E c \in Persisted :
          /\ Agents(c.values.scratchpad) = QualityFailedOrder
          /\ Paused(c)
          /\ c.values.iteration_count = 5
          /\ Len(c.values.draft_versions) = 2

(***************************************************************************)
(* C24: once create_protocol has returned the protocol id, reading the     *)
(* state of that id returns the run's state and never "not found",         *)
(* however far the background execution has got.                           *)
(***************************************************************************)
C24_StateFoundAfterCreate ==
    [][get_protocol_state => response'.status = 200]_vars

(***************************************************************************)
(* C25: creating a run with an empty or a missing intent fails at once     *)
(* with a validation error and creates nothing: no checkpoint, no history  *)
(* record (created) and no workflow execution.                             *)
(***************************************************************************)
RejectedWithoutTrace ==
    /\ response'.status \in 400 .. 499
    /\ UNCHANGED <<ckpt, exec, created, nFeedback>>

C25_EmptyIntentRejected ==
    /\ [][ProtocolRequestInvalid => RejectedWithoutTrace]_vars
    /\ [][create_protocol(EmptyStr, None) => RejectedWithoutTrace]_vars

(***************************************************************************)
(* C30: reading the state of a run is read-only and idempotent: the read   *)
(* changes no field of the persisted state, and a second read made while   *)
(* the state is still the one the first read returned gives the identical  *)
(* answer.                                                                 *)
(***************************************************************************)
\* what a read of the present state answers
StateAnswer ==
    IF ckpt = None
    THEN [op |-> "get_protocol_state", status |-> 404]
    ELSE [op |-> "get_protocol_state", status |-> 200, body |-> StateResponse(ckpt[1].values)]

Subscribed(w) == active_connections = Some(w)

C27_ObserversIndependent ==
    /\ [][\A w \in Sockets, v \in Sockets :
            (v # w /\ Subscribed(v) /\ websocket_connect(w)) => Subscribed(v)']_vars
    /\ [][\A w \in Sockets, v \in Sockets :
            (v # w /\ Subscribed(v) /\ websocket_disconnect(w)) => Subscribed(v)']_vars

(***************************************************************************)
(* C28: the transitions of a run that are persisted while an observer is   *)
(* subscribed are delivered to it. Checked in its weakest form: an         *)
(* observer subscribed before the first checkpoint of the run is written   *)
(* is sent an update, unless its subscription ends first.                  *)
(***************************************************************************)
C28_TransitionsDelivered ==
    \A w \in Sockets :
        (created /\ ckpt = None /\ Subscribed(w)) ~> (sent[w] # << >> \/ ~Subscribed(w))

(***************************************************************************)
(* C29: after the process is killed and started again the state of a run   *)
(* is the one of its last completed save, and a run that was paused for    *)
(* the human is found paused with the same state, so that a decision can   *)
(* still be submitted.                                                     *)
(***************************************************************************)
C29_StateSurvivesRestart ==
    /\ [][Restart => ckpt' = ckpt]_vars
    /\ [][(Restart /\ PausedAtRest) => PausedAtRest']_vars

Stages == Workers \cup {"supervisor"}

C31_ScratchpadAppendOnly ==
    /\ [][\A e \in ExecIds, stage \in Stages :
            (Stepped(e, stage) /\ exec'[e].result # "error")
            => LET old == exec[e].values.scratchpad
                   new == ckpt'[1].values.scratchpad
               IN  /\ new = old \o <<[agent |-> stage,
                                      iteration |-> ckpt'[1].values.iteration_count]>>]_vars
    /\ [][\A e \in ExecIds :
            Stepped(e, "human_approval")
            => ckpt'[1].values.scratchpad = exec[e].values.scratchpad]_vars
    /\ [][(NoNodeRan /\ ckpt # None /\ ckpt' # None)
            => ckpt'[1].values.scratchpad = ckpt[1].values.scratchpad]_vars

(***************************************************************************)
(* C32: for every combination of needs_revision, iteration_count against   *)
(* max_iterations, draft present or empty, safety assessment absent, safe, *)
(* needs_review or unsafe, and Quality assessment absent, passing or       *)
(* failing, the decision of the supervisor and the flags it sets are those *)
(* of the first matching rule of the ordered rules 1-8 (every state        *)
(* matches one of them).                                                   *)
(***************************************************************************)
\* the number of the first rule that matches the state
MatchedRule(state) ==
    IF state.needs_revision THEN 1
    ELSE IF state.iteration_count + 1 >= state.max_iterations THEN 2
    ELSE IF state.current_draft = EmptyStr THEN 3
    ELSE IF state.safety_assessment = None THEN 4
    ELSE IF state.safety_assessment[1].level # "safe" THEN 5
    ELSE IF state.clinical_assessment = None THEN 6
    ELSE IF AvgScoreBelow(state.clinical_assessment[1], QualityThreshold) THEN 7
    ELSE 8

\* the node a rule's decision leads to: the stage it invokes, or the pause for
\* the human (PauseForHuman and Complete)
RuleDecision(rule) ==
    CASE rule \in {1, 3, 5, 7} -> "drafter"
      [] rule = 4 -> "safety_guardian"
      [] rule = 6 -> "clinical_critic"
      [] rule \in {2, 8} -> "human_approval"

\* the flags a rule sets, on the state the supervisor leaves
RuleFlags(rule, new) ==
    CASE rule = 1 -> NoAssessment(new) /\ ~new.requires_human_approval
      [] rule \in {2, 8} -> new.requires_human_approval
      [] rule \in {3, 4, 6} -> ~new.needs_revision /\ ~new.requires_human_approval
      [] rule \in {5, 7} -> new.needs_revision /\ ~new.requires_human_approval

\* rules 5 and 7 also give the reason of the revision
RuleReason(rule, new) == rule \in {5, 7} => TruthyStr(new.revision_reason)

C33_WorkerFollowsSupervisor ==
    /\ [][\A e \in ExecIds, w \in Workers :
            (exec'[e].pc = "running" /\ exec'[e].next = w /\ exec'[e] # exec[e])
            => Stepped(e, "supervisor")]_vars
    /\ [][\A e \in ExecIds, w \in Workers :
            (Stepped(e, w) /\ exec'[e].result # "error")
            => exec'[e].pc = "running" /\ exec'[e].next = "supervisor"]_vars

(***************************************************************************)
(* C34: the state a Drafter run leaves has needs_revision = false, no      *)
(* revision_reason, no human_approved, no human_feedback and no            *)
(* human_edits, and names the Safety Guardian as the next agent.           *)
(***************************************************************************)
C34_DrafterClearsRevisionFields ==
    [][\A e \in ExecIds :
          Stepped(e, "drafter")
          => LET new == ckpt'[1].values
             IN  /\ ~new.needs_revision
                 /\ new.revision_reason = None
                 /\ new.human_approved = None
                 /\ new.human_feedback = None
                 /\ new.human_edits = None
                 /\ new.next_agent = Some(AgentRole.SAFETY_GUARDIAN)]_vars

\* the Drafter has run on a rejected draft: the second version is there and the
\* rejection is gone from the state
C34_Witness ==
    /\ nFeedback = 1
    /\ ckpt # None
    /\ ckpt[1].as_node = "drafter"
    /\ Len(ckpt[1].values.draft_versions) = 2
    /\ ckpt[1].values.human_feedback = None
    /\ ckpt[1].values.human_approved = None
    /\ ~ckpt[1].values.needs_revision

\* an assessment of the state fails: a safety level other than safe, or an average
\* score below the threshold
FailingAssessment(state) ==
    \/ state.safety_assessment # None /\ state.safety_assessment[1].level # "safe"
    \/ /\ state.clinical_assessment # None
       /\ AvgScoreBelow(state.clinical_assessment[1], QualityThreshold)

(***************************************************************************)
(* C35: on every state the supervisor evaluates, a failing assessment      *)
(* comes with needs_revision = true and is handled by the needs_revision   *)
(* rule, which clears both assessments; the rules that test the safety     *)
(* level and the average score themselves (rules 5 and 7) never match, and *)
(* needs_revision is a boolean, so the later 'revision required' branch is *)
(* never reached.                                                          *)
(***************************************************************************)
C35_FailuresHandledByRevisionRule ==
    [][\A e \in ExecIds :
          Stepped(e, "supervisor")
          => LET old == exec[e].values
                 rule == MatchedRule(old)
             IN  /\ old.needs_revision \in BOOLEAN
                 /\ rule \notin {5, 7}
                 /\ FailingAssessment(old)
                    => /\ old.needs_revision
                       /\ rule = 1
                       /\ NoAssessment(ckpt'[1].values)]_vars

\* the supervisor has sent a draft whose scores fell below the threshold back to
\* the Drafter, by the needs_revision rule
C35_Witness ==
    /\ ckpt # None
    /\ ckpt[1].as_node = "supervisor"
    /\ ckpt[1].next = "drafter"
    /\ ckpt[1].values.needs_revision
    /\ NoAssessment(ckpt[1].values)
    /\ ckpt[1].values.human_approved = None
    /\ LET pad == ckpt[1].values.scratchpad
       IN  Len(pad) > 1 /\ pad[Len(pad) - 1].agent = AgentRole.CLINICAL_CRITIC

(***************************************************************************)
(* C36: while no human decision has been submitted, iteration_count never  *)
(* exceeds max_iterations + 1 and the supervisor evaluation that reaches   *)
(* max_iterations + 1 pauses the run; a supervisor evaluation that finds   *)
(* needs_revision set sends the run to the Drafter, whose run clears the   *)
(* flag; and the first graph.invoke returns only at the pause (or with a   *)
(* worker's exception).                                                    *)
(***************************************************************************)
C36_FirstPauseWithinBudget ==
    /\ [](nFeedback = 0
            => \A c \in Snapshots : c.values.iteration_count <= c.values.max_iterations + 1)
    /\ [][\A e \in ExecIds :
            (nFeedback = 0 /\ Stepped(e, "supervisor"))
            => LET old == exec[e].values
                   c == ckpt'[1]
               IN  /\ old.needs_revision => c.next = "drafter"
                   /\ (~old.needs_revision /\ old.iteration_count + 1 >= old.max_iterations)
                        => Paused(c)
                   /\ c.values.iteration_count = old.max_iterations + 1
                        => Paused(c)]_vars
    /\ [][\A e \in ExecIds :
            (Stepped(e, "drafter") /\ exec'[e].result # "error")
            => ~ckpt'[1].values.needs_revision]_vars
    /\ [](nFeedback = 0 /\ exec[0].pc = "returned"
            => \/ exec[0].result = "error"
               \/ /\ exec[0].result = "interrupt"
                  /\ ckpt # None
                  /\ Paused(ckpt[1])
                  /\ ckpt[1].values.iteration_count <= ckpt[1].values.max_iterations + 1)

\* two failed verdicts in a row: the run pauses at the sixth supervisor evaluation
C36_Witness ==
    /\ nFeedback = 0
    /\ exec[0].result = "interrupt"
    /\ ckpt # None
    /\ Paused(ckpt[1])
    /\ ckpt[1].values.iteration_count = MaxIterations + 1

\* the first graph.invoke of the run has returned at the pause: the run has been
\* paused for review at least once
HasPaused == exec[0].result = "interrupt"

LastWorker(pad) ==
    LET w == WorkerEntries(pad)
    IN  IF w = << >> THEN "" ELSE w[Len(w)].agent

(***************************************************************************)
(* C38: the Clinical Critic is invoked only on a state whose               *)
(* safety_assessment is present with level safe and whose last worker run  *)
(* is the Safety Guardian's (no Drafter run since that assessment); the    *)
(* worker that runs after a Drafter run is never the Clinical Critic.      *)
(***************************************************************************)
C38_QualityCheckAfterSafeVerdict ==
    /\ [][\A e \in ExecIds :
            Stepped(e, "clinical_critic")
            => LET old == exec[e].values
               IN  /\ old.safety_assessment # None
                   /\ old.safety_assessment[1].level = "safe"
                   /\ LastWorker(old.scratchpad) = AgentRole.SAFETY_GUARDIAN
                   /\ old.current_draft
                        = old.draft_versions[Len(old.draft_versions)].content]_vars
    /\ [](\A c \in Snapshots :
            (c.next = "clinical_critic")
            => LastWorker(c.values.scratchpad) # AgentRole.DRAFTER)

\* the Clinical Critic has assessed a second draft, after the Safety Guardian
\* found it safe
C38_Witness ==
    /\ ckpt # None
    /\ ckpt[1].as_node = "clinical_critic"
    /\ ckpt[1].values.clinical_assessment # None
    /\ ckpt[1].values.safety_assessment # None
    /\ ckpt[1].values.safety_assessment[1].level = "safe"
    /\ Len(ckpt[1].values.draft_versions) = 2

(***************************************************************************)
(* C39: every step that changes the persisted current_draft, and every     *)
(* Drafter step, leaves safety_assessment and clinical_assessment absent:  *)
(* a present assessment was computed from the current draft.               *)
(***************************************************************************)
C39_AssessmentsMatchCurrentDraft ==
    /\ [][\A e \in ExecIds :
            (Stepped(e, "drafter") /\ exec'[e].result # "error")
            => NoAssessment(ckpt'[1].values)]_vars
    /\ [][(/\ ckpt # None
           /\ ckpt' # None
           /\ ckpt'[1].values.current_draft # ckpt[1].values.current_draft)
          => NoAssessment(ckpt'[1].values)]_vars

(***************************************************************************)
(* mcp-server/server.py: the generate_cbt_protocol tool.  The server has   *)
(* its own graph; call_tool streams one run on a fresh thread id and       *)
(* approves it itself when the run asks for human approval.  The response  *)
(* records how the call ended: 200 for a returned text, 400 for the        *)
(* ValueError raised before the run is started.                            *)
(***************************************************************************)
\* the cut-off of the event loop: `if iteration_count > 20: break`
StreamLimit == 20

\* the arguments of the tool call (user_intent is required by the schema only)
McpIntents == Intents \cup {Str("exposure hierarchy for agoraphobia")}

Contexts == {None, Some(Str("adult patient"))}

\* call_tool has started the stream and has not returned yet
InCallTool == created /\ response.op = "none"

\* the events the stream has yielded: the input, then one per node that ran
\* (each node appends one scratchpad entry)
StreamEvents(values) == Len(values.scratchpad) + 1

\* call_tool, up to graph.astream(initial_state, config, stream_mode="values")
call_tool(user_intent, user_context) ==
    /\ ~created
    /\ response.op = "none"
    /\ UNCHANGED <<ckpt, nFeedback, obs, other>>
    /\ IF ~TruthyStr(Some(user_intent))
       THEN /\ Respond("call_tool", 400)
            /\ UNCHANGED <<exec, created>>
       ELSE /\ created' = TRUE
            /\ exec' = [exec EXCEPT ![0] =
                            [pc |-> "submitted",
                             input |-> Some(create_initial_state(user_intent, user_context)),
                             values |-> None, next |-> "", result |-> "none"]]
            /\ UNCHANGED response

\* `async for event in graph.astream(...)`: the loop takes the next event while
\* it has not broken out
call_tool_stream(step) ==
    /\ InCallTool
    /\ exec[0].pc = "running" => StreamEvents(exec[0].values) <= StreamLimit
    /\ step

\* the event has requires_human_approval: aupdate_state, aget_state, break, and
\* the text is returned
call_tool_auto_approve ==
    /\ InCallTool
    /\ exec[0].result = "interrupt"
    /\ ckpt # None
    /\ ckpt[1].values.requires_human_approval
    /\ ckpt' = Some(update_state(ckpt[1],
                        [human_approved |-> Some(TRUE), completed |-> TRUE]))
    /\ Respond("call_tool", 200)
    /\ UNCHANGED <<exec, created, nFeedback, obs, other>>

\* `except Exception as e`: a node raised, the text with the error is returned
call_tool_except ==
    /\ InCallTool
    /\ exec[0].result = "error"
    /\ Respond("call_tool", 200)
    /\ UNCHANGED <<ckpt, exec, created, nFeedback, obs, other>>

NextMcp ==
    \/ \E user_intent \in McpIntents, user_context \in Contexts :
          call_tool(user_intent, user_context)
    \/ call_tool_stream(InvokeInitial(0))
    \/ call_tool_stream(RunSupervisor(0))
    \/ call_tool_stream(RunDrafter(0))
    \/ call_tool_stream(RunSafetyGuardian(0))
    \/ call_tool_stream(SafetyGuardianFails(0))
    \/ call_tool_stream(RunClinicalCritic(0))
    \/ call_tool_stream(ClinicalCriticFails(0))
    \/ call_tool_auto_approve
    \/ call_tool_except

SpecMcp == Init /\ [][NextMcp]_vars

(***************************************************************************)
(* C40: in every state of a run, persisted or in memory, completed = true  *)
(* implies that final_protocol is set and equal to current_draft and that  *)
(* requires_human_approval is false; on the REST path and on the MCP       *)
(* auto-approve path.                                                      *)
(***************************************************************************)
C40_CompletedHasFinalProtocol ==
    [](\A c \in Snapshots :
          c.values.completed
          => /\ TruthyStr(c.values.final_protocol)
             /\ c.values.final_protocol = Some(c.values.current_draft)
             /\ ~c.values.requires_human_approval)

====
